---- MODULE Spec2Model ----
(***************************************************************************)
(* A state-machine model of transcribe() (src/src/transcribe.ts) and of    *)
(* optimizeAudio() (src/src/optimize.ts): one run of the pipeline, from    *)
(* the validation of the options to the terminal cleanup.  External tools  *)
(* (ffmpeg, ffprobe, the Whisper API, the file system) are the             *)
(* environment: their answers are drawn from small sets.                   *)
(*                                                                         *)
(* Numbers.  Every real quantity of the code (seconds, minutes, the speed  *)
(* factor) is held in fixed point with denominator Scale: 2.0 s is 20,     *)
(* 1.2 is 12, 0.5 min is 5.  A product of two such values (t * speedFactor)*)
(* has denominator Scale * Scale, so transformed timestamps and returned   *)
(* durations are in hundredths: 32.4 s is 3240.                            *)
(***************************************************************************)
EXTENDS Integers, Sequences, FiniteSets, TLC

VARIABLES
    pc,                     \* position of the run inside transcribe()
    inputPath, apiKey, optimize, offsetSeconds, chunkMinutes,   \* options
    files,                  \* the file system: the set of paths that exist
    statSize,               \* path -> bytes, for the files whose size was read
    audioPath, tempAudioPath, optimizedPath, chunkPaths, speedFactor,
    fileSizeBytes, durationOptimized, shouldChunk,
    chunkSecondsOriginal, chunkSecondsOptimized,
    i, offsetOptimizedSeconds, totalOptimizedSeconds,
    mergedSegments, mergedText, language, originalDurationSeconds,
    srt,                    \* the document handed to writeFile
    result,                 \* what transcribe() resolved with (<<>>: nothing)
    error,                  \* what transcribe() rejects with ("": nothing)
    probed,                 \* history: durations ffprobe reported per chunk
    responses,              \* history: what the service answered, in order
    uploaded,               \* history: the uploads, in order
    \* The timestamp functions applied to one time value (SpecTimes):
    tmPc,                   \* how far the value has gone
    tmRaw,                  \* the --offset argument, a sequence of characters
    tmOffset,               \* the offset parsed from it, in tenths of a second
    tmT,                    \* a local time of the transcript, in tenths
    tmF,                    \* the speed factor, in tenths
    tmSeconds,              \* the transformed time, in hundredths
    tmStamp,                \* the timestamp formatTime rendered
    tmAdjusted,             \* the timestamp adjustSRTTimestamps left
    \* The directory listing of splitAudioIntoChunks (SpecListing):
    lsPc,                   \* how far the split has gone
    lsCount,                \* the number of chunk files ffmpeg writes
    lsDir,                  \* the directory, in the order readdir returns it
    lsCreated,              \* the list the split returns
    \* Two runs of transcribe() in one directory (SpecShared):
    shPc,                   \* run -> position of the run
    shInput,                \* run -> inputPath
    shOptimize,             \* run -> the optimize option
    shNow,                  \* the last value Date.now() returned
    shDisk,                 \* path -> who created the file, who wrote it last
    shBefore,               \* the directory before the runs started
    shAudio,                \* run -> audioPath
    shTemp,                 \* run -> tempAudioPath
    shOptimized,            \* run -> optimizedPath
    shChunks,               \* run -> chunkPaths
    shError,                \* run -> whether the run has thrown
    shLog,                  \* history: accesses to another's temporary file
    \* One run of the command line program (SpecCli):
    clPc,                   \* position inside main()
    clInput,                \* the positional argument
    clUnknownOption,        \* whether an unknown option was given
    clUseRaw,               \* --raw
    clOutputArg,            \* --output
    clOffsetRaw,            \* --offset: <<>> (not given) or <<its value>>
    clChunkRaw,             \* --chunk-minutes: <<>> or <<its value>>
    clApiKey,               \* whether an API key is configured
    clOffsetSeconds,        \* offsetSeconds: <<>> (undefined) or <<tenths>>
    clChunkMinutes,         \* chunkMinutes: <<>> (undefined) or <<tenths>>
    clInputPath,            \* inputPath
    clDownloadedFile,       \* downloadedFile ("null": none)
    clOutputPath,           \* outputPath
    clTmpdir,               \* the files in os.tmpdir()
    clExitCode              \* the exit code of the process (-1: running)

mainVars == <<pc, inputPath, apiKey, optimize, offsetSeconds, chunkMinutes,
              files, statSize, audioPath, tempAudioPath, optimizedPath,
          chunkPaths, speedFactor, fileSizeBytes, durationOptimized,
          shouldChunk, chunkSecondsOriginal, chunkSecondsOptimized,
          i, offsetOptimizedSeconds, totalOptimizedSeconds,
          mergedSegments, mergedText, language, originalDurationSeconds,
          srt, result, error, probed, responses, uploaded>>

timeVars == <<tmPc, tmRaw, tmOffset, tmT, tmF, tmSeconds, tmStamp, tmAdjusted>>

listVars == <<lsPc, lsCount, lsDir, lsCreated>>

sharedVars == <<shPc, shInput, shOptimize, shNow, shDisk, shBefore, shAudio,
                shTemp, shOptimized, shChunks, shError, shLog>>

cliVars == <<clPc, clInput, clUnknownOption, clUseRaw, clOutputArg,
             clOffsetRaw, clChunkRaw, clApiKey, clOffsetSeconds,
             clChunkMinutes, clInputPath, clDownloadedFile, clOutputPath,
             clTmpdir, clExitCode>>

\* The variables a run of transcribe() leaves alone.
others == <<timeVars, listVars, sharedVars, cliVars>>

vars == <<mainVars, others>>

\* No timestamp is being worked on.
TimesIdle ==
    /\ tmPc = "idle"
    /\ tmRaw = <<>>
    /\ tmOffset = 0
    /\ tmT = 0
    /\ tmF = 0
    /\ tmSeconds = 0
    /\ tmStamp = <<>>
    /\ tmAdjusted = <<>>

\* The command line program is not running.
CliIdle ==
    /\ clPc = "idle"
    /\ clInput = "none"
    /\ clUnknownOption = FALSE
    /\ clUseRaw = FALSE
    /\ clOutputArg = "null"
    /\ clOffsetRaw = <<>>
    /\ clChunkRaw = <<>>
    /\ clApiKey = FALSE
    /\ clOffsetSeconds = <<>>
    /\ clChunkMinutes = <<>>
    /\ clInputPath = "none"
    /\ clDownloadedFile = "null"
    /\ clOutputPath = "undefined"
    /\ clTmpdir = {}
    /\ clExitCode = -1

\* No run shares a directory with another.
SharedIdle ==
    /\ shPc = <<>>
    /\ shInput = <<>>
    /\ shOptimize = <<>>
    /\ shNow = 0
    /\ shDisk = <<>>
    /\ shBefore = <<>>
    /\ shAudio = <<>>
    /\ shTemp = <<>>
    /\ shOptimized = <<>>
    /\ shChunks = <<>>
    /\ shError = <<>>
    /\ shLog = {}

\* No directory is being listed.
ListingIdle ==
    /\ lsPc = "idle"
    /\ lsCount = 0
    /\ lsDir = <<>>
    /\ lsCreated = <<>>

---------------------------------------------------------------------------
(* Program constants *)

Scale == 10

MAX_UPLOAD_MB == 24
MAX_UPLOAD_BYTES == MAX_UPLOAD_MB * 1024 * 1024
AUTO_CHUNK_MINUTES == 20
AUTO_CHUNK_THRESHOLD_MINUTES == 45
MIN_CHUNK_SECONDS == 60
SPEED_FACTOR == 12
MAX_FILE_SIZE_MB == 24
MAX_FILE_SIZE_BYTES == MAX_FILE_SIZE_MB * 1024 * 1024

supportedFormats ==
    {"mp4", "mp3", "wav", "m4a", "webm", "ogg", "opus", "mov", "avi", "mkv"}
videoFormats == {"mp4", "webm", "mov", "avi", "mkv"}

---------------------------------------------------------------------------
(* Bounds of the model and the environment's answers *)

MaxChunks == 3

MiB == 1024 * 1024

\* Paths are records: what the file is, its extension, its ordinal.
Path(kind, ext, idx) == [kind |-> kind, ext |-> ext, idx |-> idx]
NoPath == Path("null", "", 0)

InputPaths == {Path("input", "mp4", 0), Path("input", "mp3", 0),
               Path("input", "opus", 0), Path("input", "txt", 0)}
OffsetChoices == {0, 50}
ChunkMinuteChoices == {<<>>, <<5>>, <<100>>}

\* Sizes a stat of an audio file may report: under, at and over the ceiling.
FileSizes == {10 * MiB, MAX_UPLOAD_BYTES, 30 * MiB}
\* Sizes of the pieces ffmpeg writes: at the ceiling, and over it.
ChunkSizes == {MAX_UPLOAD_BYTES, 30 * MiB}
\* Durations ffprobe may report for the asset to upload: 10 min, 45 min,
\* 50 min.
SourceDurations == {6000, 27000, 30000}
\* Durations ffprobe may report for a chunk file: 0 s, 10 s, 15 s.
ChunkDurations == {0, 100, 150}

---------------------------------------------------------------------------
(* What the Whisper API may answer.  A segment's timestamps are local to    *)
(* the uploaded asset; its text is a sequence of tokens (" " is blank).     *)

Word(w, s, e) == [word |-> w, start |-> s, end |-> e]
Segment(id, s, e, text, words) ==
    [id |-> id, start |-> s, end |-> e, text |-> text, words |-> words]

\* Silence: no segment, empty text.
ResponseSilence ==
    [language |-> "en", duration |-> 0, text |-> <<>>, segments |-> <<>>]
\* Speech: three segments out of time order, the first at local time 2.0
\* with a nested word, the text of the second padded with blanks, the third
\* at the very end of a 10 s asset (where the next chunk starts).
ResponseSpeech ==
    [language |-> "fr", duration |-> 100,
     text |-> <<"bon", " ", "jour", " ", "fin">>,
     segments |-> << Segment(0, 20, 34, <<"jour">>, <<Word("jour", 20, 34)>>),
                     Segment(1, 0, 20, <<" ", "bon", " ">>, <<>>),
                     Segment(2, 100, 100, <<"fin">>, <<>>) >>]

WhisperResponses == {ResponseSilence, ResponseSpeech}

---------------------------------------------------------------------------
(* Pure functions of transcribe.ts *)

Max(a, b) == IF a >= b THEN a ELSE b

\* JavaScript's %: the remainder takes the sign of the dividend.
JsRem(a, b) == IF a >= 0 THEN a % b ELSE -((-a) % b)

\* String.prototype.trim on a token sequence.
IsBlank(tok) == tok \in {" ", "\n"}
RECURSIVE TrimStart(_)
TrimStart(t) ==
    IF t # <<>> /\ IsBlank(Head(t)) THEN TrimStart(Tail(t)) ELSE t
RECURSIVE TrimEnd(_)
TrimEnd(t) ==
    IF t # <<>> /\ IsBlank(t[Len(t)]) THEN TrimEnd(SubSeq(t, 1, Len(t) - 1))
    ELSE t
Trim(t) == TrimEnd(TrimStart(t))

\* Time values are IEEE 754 doubles in the code.  A time of h hundredths of a
\* second is the double nearest to h / 100, which is h / 100 exactly only when
\* h is a multiple of 25.  The operators below compute, in integers, what
\* Math.floor((seconds % 1) * 1000) yields on that double.
RECURSIVE Log2Up(_, _, _)
Log2Up(num, den, e) ==
    IF num >= den * 2 THEN Log2Up(num, den * 2, e + 1) ELSE e
RECURSIVE Log2Down(_, _, _)
Log2Down(num, den, e) ==
    IF num < den THEN Log2Down(num * 2, den, e - 1) ELSE e
\* The binary exponent of num / den: the floor of its logarithm in base 2.
FloorLog2(num, den) ==
    IF num >= den THEN Log2Up(num, den, 0) ELSE Log2Down(num, den, 0)
RECURSIVE Pow2(_)
Pow2(n) == IF n = 0 THEN 1 ELSE 2 * Pow2(n - 1)
RECURSIVE Pow2Mod100(_)
Pow2Mod100(n) == IF n = 0 THEN 1 ELSE (2 * Pow2Mod100(n - 1)) % 100
\* A double has 53 significant bits: with E the exponent of a / 100, the
\* double is an integer multiple of 2^(E - 52).  The residue is how far, in
\* hundredths of that unit, a / 100 lies above the multiple below it; the
\* double is the multiple below when the residue is under 50, the multiple
\* above when it is over 50 (50 cannot occur).
DoubleResidue(a) == ((a % 100) * Pow2Mod100(52 - FloorLog2(a, 100))) % 100
\* Whether an error of t / 100 units of the time value, multiplied by 1000,
\* is more than half a unit of the product, whose exponent is k - 1 lower:
\* t * 2^k > 1.  If so the product is not rounded back to the whole number.
ErrorSurvives(t, k) == IF k >= 0 THEN t * Pow2(k) > 1 ELSE t > Pow2(-k)
\* Math.floor((seconds % 1) * 1000): the remainder is exact, the product is
\* rounded to a double, the floor is taken.
Millis(seconds) ==
    LET a == IF seconds >= 0 THEN seconds ELSE -seconds
        m == (a % (Scale * Scale)) * (1000 \div (Scale * Scale))
        E == FloorLog2(a, Scale * Scale)
        r == DoubleResidue(a)
        below == /\ r > 0 /\ r < 50
                 /\ ErrorSurvives(10 * r, 1 + E - FloorLog2(2 * m - 1, 2))
        above == /\ r > 50
                 /\ ErrorSurvives(10 * (100 - r), 1 + E - FloorLog2(m, 1))
    IN  IF m = 0 THEN 0
        ELSE IF seconds >= 0 THEN (IF below THEN m - 1 ELSE m)
        ELSE (IF above THEN -(m + 1) ELSE -m)

\* formatTime: the fields of HH:MM:SS,mmm of a time in hundredths of a second.
formatTime(seconds) ==
    [hours   |-> seconds \div (3600 * Scale * Scale),
     minutes |-> JsRem(seconds, 3600 * Scale * Scale) \div (60 * Scale * Scale),
     secs    |-> JsRem(seconds, 60 * Scale * Scale) \div (Scale * Scale),
     millis  |-> Millis(seconds)]

\* Variant: the cues are numbered from 0.
convertSegmentsToSRTZeroBased(segments) ==
    [index \in 1..Len(segments) |->
        [index |-> index - 1,
         start |-> formatTime(segments[index].start),
         end   |-> formatTime(segments[index].end),
         text  |-> Trim(segments[index].text)]]
\* convertSegmentsToSRT: one cue per segment; a cue is its number, the two
\* rendered times and the trimmed text.
convertSegmentsToSRT(segments) ==
    [index \in 1..Len(segments) |->
        [index |-> index,
         start |-> formatTime(segments[index].start),
         end   |-> formatTime(segments[index].end),
         text  |-> Trim(segments[index].text)]]

\* The per-chunk timeline transform, (t + offsetOptimized) * speedFactor +
\* offsetSeconds, and the single-asset one, t * speedFactor + offsetSeconds.
\* Variant: the chunk offset is added after the scaling instead of before.
ChunkTransformOffsetUnscaled(t, offsetOptimized, factor, userOffset) ==
    t * factor + offsetOptimized * Scale + userOffset * Scale
\* Variant: the time in the optimized audio is divided by the speed factor.
ChunkTransformDivide(t, offsetOptimized, factor, userOffset) ==
    ((t + offsetOptimized) * Scale * Scale) \div factor + userOffset * Scale
\* Variant: the chunk transform leaves the user's offset out.
ChunkTransformNoUserOffset(t, offsetOptimized, factor, userOffset) ==
    (t + offsetOptimized) * factor
ChunkTransform(t, offsetOptimized, factor, userOffset) ==
    (t + offsetOptimized) * factor + userOffset * Scale
\* Variant: the timestamp is divided by the speed factor.
SingleTransformDivide(t, factor, userOffset) ==
    (t * Scale * Scale) \div factor + userOffset * Scale
SingleTransform(t, factor, userOffset) ==
    t * factor + userOffset * Scale

\* transformSegments with the chunk transform, on segments and nested words.
transformSegments(segments, offsetOptimized, factor, userOffset) ==
    [k \in 1..Len(segments) |->
        [segments[k] EXCEPT
            !.start = ChunkTransform(@, offsetOptimized, factor, userOffset),
            !.end   = ChunkTransform(@, offsetOptimized, factor, userOffset),
            !.words = [w \in 1..Len(@) |->
                [@[w] EXCEPT
                    !.start = ChunkTransform(@, offsetOptimized, factor, userOffset),
                    !.end   = ChunkTransform(@, offsetOptimized, factor, userOffset)]]]]

transformSegmentsSingle(segments, factor, userOffset) ==
    [k \in 1..Len(segments) |->
        [segments[k] EXCEPT
            !.start = SingleTransform(@, factor, userOffset),
            !.end   = SingleTransform(@, factor, userOffset),
            !.words = [w \in 1..Len(@) |->
                [@[w] EXCEPT
                    !.start = SingleTransform(@, factor, userOffset),
                    !.end   = SingleTransform(@, factor, userOffset)]]]]

\* Array.prototype.sort with (a, b) => a.start - b.start: a stable sort, an
\* element is placed after the elements that compare equal to it.
RECURSIVE InsertByStartUnstable(_, _)
\* Variant: an element is placed before the elements that compare equal.
InsertByStartUnstable(sorted, x) ==
    IF sorted = <<>> THEN <<x>>
    ELSE IF Head(sorted).start - x.start < 0
         THEN <<Head(sorted)>> \o InsertByStartUnstable(Tail(sorted), x)
         ELSE <<x>> \o sorted
RECURSIVE InsertByStart(_, _)
InsertByStart(sorted, x) ==
    IF sorted = <<>> THEN <<x>>
    ELSE IF Head(sorted).start - x.start <= 0
         THEN <<Head(sorted)>> \o InsertByStart(Tail(sorted), x)
         ELSE <<x>> \o sorted
RECURSIVE SortByStart(_)
SortByStart(segments) ==
    IF segments = <<>> THEN <<>>
    ELSE InsertByStart(SortByStart(SubSeq(segments, 1, Len(segments) - 1)),
                       segments[Len(segments)])

\* The chunk plan of lines 328-347.
DurationOriginal(duration, factor) == duration * factor
\* Variant: "45+ minutes", the threshold itself already chunks.
ShouldChunkAtThreshold(minutes, bytes, duration, factor) ==
    \/ minutes # <<>>
    \/ bytes > MAX_UPLOAD_BYTES
    \/ DurationOriginal(duration, factor)
          >= AUTO_CHUNK_THRESHOLD_MINUTES * 60 * Scale * Scale
ShouldChunk(minutes, bytes, duration, factor) ==
    \/ minutes # <<>>
    \/ bytes > MAX_UPLOAD_BYTES
    \/ DurationOriginal(duration, factor)
          > AUTO_CHUNK_THRESHOLD_MINUTES * 60 * Scale * Scale
ChunkMinutesToUse(minutes) ==
    IF minutes # <<>> THEN minutes[1] ELSE AUTO_CHUNK_MINUTES * Scale
\* Variant: no floor of 60 seconds.
ChunkSecondsOriginalNoFloor(minutes) == ChunkMinutesToUse(minutes) * 60
ChunkSecondsOriginal(minutes) ==
    Max(MIN_CHUNK_SECONDS * Scale, ChunkMinutesToUse(minutes) * 60)
\* chunkSecondsOriginal / speedFactor, back in tenths of a second.
ChunkSecondsOptimized(secondsOriginal, factor) ==
    (secondsOriginal * Scale) \div factor

\* Lines 363-365: the language of the first chunk is kept.
\* Variant: every chunk overwrites the language.
MergeLanguageLast(index, current, reported) == reported
MergeLanguage(index, current, reported) ==
    IF index = 0 THEN reported ELSE current
\* Line 357: the chunk of loop index i.
\* Variant: the chunks are taken from the last to the first.
ChunkAtReversed(paths, index) == paths[Len(paths) - index]
ChunkAt(paths, index) == paths[index + 1]
\* Lines 377-378: the running offset advances by the chunk's own duration.
\* Variant: the offset advances by the planned chunk length.
AdvanceOffsetPlanned(offsetOptimized, chunkDuration) ==
    offsetOptimized + chunkSecondsOptimized
AdvanceOffset(offsetOptimized, chunkDuration) ==
    offsetOptimized + chunkDuration
\* Line 381: the total duration in original time.
\* Variant: the total is left in optimized time.
TotalOptimizedDuration(totalOptimized, factor) == totalOptimized * Scale
TotalOriginalDuration(totalOptimized, factor) == totalOptimized * factor

Ext(path) == path.ext
TempAudioPath(input) == Path("temp", "mp3", 0)
SpeedOptimizedPath == Path("optimized_speed", "mp3", 0)
FinalPath == Path("optimized_final", "ogg", 0)
ChunkPath(input, k) == Path("chunk", Ext(input), k)
SrtPath == Path("srt", "srt", 0)

---------------------------------------------------------------------------
(* The run *)

Init ==
    /\ pc = "start"
    /\ inputPath \in InputPaths
    /\ apiKey \in {"", "sk-key"}
    /\ optimize \in BOOLEAN
    /\ offsetSeconds \in OffsetChoices
    /\ chunkMinutes \in ChunkMinuteChoices
    /\ files \in {{}, {inputPath}}
    /\ statSize = <<>>
    /\ audioPath = NoPath
    /\ tempAudioPath = NoPath
    /\ optimizedPath = NoPath
    /\ chunkPaths = <<>>
    /\ speedFactor = Scale
    /\ fileSizeBytes = 0
    /\ durationOptimized = 0
    /\ shouldChunk = FALSE
    /\ chunkSecondsOriginal = 0
    /\ chunkSecondsOptimized = 0
    /\ i = 0
    /\ offsetOptimizedSeconds = 0
    /\ totalOptimizedSeconds = 0
    /\ mergedSegments = <<>>
    /\ mergedText = <<>>
    /\ language = "unknown"
    /\ originalDurationSeconds = 0
    /\ srt = <<>>
    /\ result = <<>>
    /\ error = ""
    /\ probed = <<>>
    /\ responses = <<>>
    /\ uploaded = <<>>
    /\ TimesIdle
    /\ ListingIdle
    /\ SharedIdle
    /\ CliIdle

\* No run of transcribe() is going on.
MainIdle ==
    /\ pc = "idle"
    /\ inputPath = NoPath
    /\ apiKey = ""
    /\ optimize = TRUE
    /\ offsetSeconds = 0
    /\ chunkMinutes = <<>>
    /\ files = {}
    /\ statSize = <<>>
    /\ audioPath = NoPath
    /\ tempAudioPath = NoPath
    /\ optimizedPath = NoPath
    /\ chunkPaths = <<>>
    /\ speedFactor = Scale
    /\ fileSizeBytes = 0
    /\ durationOptimized = 0
    /\ shouldChunk = FALSE
    /\ chunkSecondsOriginal = 0
    /\ chunkSecondsOptimized = 0
    /\ i = 0
    /\ offsetOptimizedSeconds = 0
    /\ totalOptimizedSeconds = 0
    /\ mergedSegments = <<>>
    /\ mergedText = <<>>
    /\ language = "unknown"
    /\ originalDurationSeconds = 0
    /\ srt = <<>>
    /\ result = <<>>
    /\ error = ""
    /\ probed = <<>>
    /\ responses = <<>>
    /\ uploaded = <<>>

options == <<inputPath, apiKey, optimize, offsetSeconds, chunkMinutes>>
planVars == <<fileSizeBytes, durationOptimized, shouldChunk,
              chunkSecondsOriginal, chunkSecondsOptimized>>
loopVars == <<i, offsetOptimizedSeconds, totalOptimizedSeconds, probed>>
mergeVars == <<mergedSegments, mergedText, language,
               originalDurationSeconds, responses>>
outVars == <<srt, result>>

\* The size statSync reports for a file: the one read before, if any.
StatSizes(path) ==
    IF path \in DOMAIN statSize THEN {statSize[path]} ELSE FileSizes

Forget(sizes, removed) ==
    [p \in DOMAIN sizes \ removed |-> sizes[p]]

\* Lines 280-313: the checks before any file is written, then the first
\* assignments.  A throw here is outside the try block.
Validate ==
    /\ pc = "start"
    /\ IF inputPath \notin files
       THEN /\ error' = "File not found"
            /\ pc' = "rejected"
            /\ UNCHANGED <<audioPath, tempAudioPath>>
       ELSE IF apiKey = ""
       THEN /\ error' = "API key is required"
            /\ pc' = "rejected"
            /\ UNCHANGED <<audioPath, tempAudioPath>>
       ELSE IF Ext(inputPath) \notin supportedFormats
       THEN /\ error' = "Unsupported format"
            /\ pc' = "rejected"
            /\ UNCHANGED <<audioPath, tempAudioPath>>
       ELSE IF Ext(inputPath) \in videoFormats
       THEN /\ audioPath' = inputPath
            /\ tempAudioPath' = TempAudioPath(inputPath)
            /\ pc' = "extract"
            /\ error' = error
       ELSE /\ audioPath' = inputPath
            /\ pc' = "optimize"
            /\ UNCHANGED <<tempAudioPath, error>>
    /\ UNCHANGED <<others, options, files, statSize, optimizedPath, chunkPaths,
                   speedFactor, planVars, loopVars, mergeVars, outVars,
                   uploaded>>

\* Variant: after the extraction the asset is probed at once.
ExtractAudioThenProbe ==
    /\ pc = "extract"
    /\ files' = files \cup {tempAudioPath}
    /\ audioPath' = tempAudioPath
    /\ pc' = "probe"
    /\ UNCHANGED <<others, options, statSize, tempAudioPath, optimizedPath, chunkPaths,
                   speedFactor, planVars, loopVars, mergeVars, outVars,
                   uploaded, error>>
\* Lines 310-312: ffmpeg writes tempAudioPath.  The call is before the try
\* block: when it fails the run rejects at once, and what ffmpeg had written
\* of the output file stays.
ExtractAudio ==
    /\ pc = "extract"
    /\ \/ /\ files' = files \cup {tempAudioPath}
          /\ audioPath' = tempAudioPath
          /\ pc' = "optimize"
          /\ error' = error
       \/ /\ files' \in {files, files \cup {tempAudioPath}}
          /\ error' = "FFmpeg exited with code 1"
          /\ pc' = "rejected"
          /\ audioPath' = audioPath
    /\ UNCHANGED <<others, options, statSize, tempAudioPath, optimizedPath, chunkPaths,
                   speedFactor, planVars, loopVars, mergeVars, outVars,
                   uploaded>>

\* Variant: with optimize = false the asset is still copied.
SkipOptimizeWithCopy ==
    /\ pc = "optimize"
    /\ ~optimize
    /\ files' = files \cup {SpeedOptimizedPath}
    /\ audioPath' = SpeedOptimizedPath
    /\ pc' = "probe"
    /\ UNCHANGED <<others, options, statSize, tempAudioPath, optimizedPath, chunkPaths,
                   speedFactor, planVars, loopVars, mergeVars, outVars,
                   uploaded, error>>
\* Line 317 with optimize = false: nothing is created.
SkipOptimize ==
    /\ pc = "optimize"
    /\ ~optimize
    /\ pc' = "probe"
    /\ UNCHANGED <<others, options, files, statSize, audioPath, tempAudioPath,
                   optimizedPath, chunkPaths, speedFactor, planVars, loopVars,
                   mergeVars, outVars, uploaded, error>>

\* optimizeAudio, lines 9-50 and 91, and lines 318-324 of transcribe when it
\* returns the speed-optimized file: ffmpeg writes speedOptimizedPath, its
\* size is read, and it is either returned or handed to the second stage.
OptimizeSpeed ==
    /\ pc = "optimize"
    /\ optimize
    /\ \/ \E speedOptimizedSize \in FileSizes :
            /\ files' = files \cup {SpeedOptimizedPath}
            /\ statSize' = SpeedOptimizedPath :> speedOptimizedSize @@ statSize
            /\ IF speedOptimizedSize > MAX_FILE_SIZE_BYTES
               THEN /\ pc' = "compress"
                    /\ UNCHANGED <<optimizedPath, audioPath, speedFactor>>
               ELSE /\ optimizedPath' = SpeedOptimizedPath
                    /\ audioPath' = SpeedOptimizedPath
                    /\ speedFactor' = SPEED_FACTOR
                    /\ pc' = "probe"
            /\ error' = error
       \/ /\ files' \in {files, files \cup {SpeedOptimizedPath}}
          /\ error' = "FFmpeg optimization failed"
          /\ pc' = "finally"
          /\ UNCHANGED <<statSize, optimizedPath, audioPath, speedFactor>>
    /\ UNCHANGED <<others, options, tempAudioPath, chunkPaths, planVars, loopVars,
                   mergeVars, outVars, uploaded>>

\* optimizeAudio, lines 50-89, and lines 318-324 of transcribe: ffmpeg
\* writes finalPath from the speed-optimized file, which is then unlinked.
OptimizeCompress ==
    /\ pc = "compress"
    /\ \/ /\ files' = (files \cup {FinalPath}) \ {SpeedOptimizedPath}
          /\ statSize' = Forget(statSize, {SpeedOptimizedPath})
          /\ optimizedPath' = FinalPath
          /\ audioPath' = FinalPath
          /\ speedFactor' = SPEED_FACTOR
          /\ pc' = "probe"
          /\ error' = error
       \/ /\ files' \in {files, files \cup {FinalPath}}
          /\ error' = "FFmpeg compression failed"
          /\ pc' = "finally"
          /\ UNCHANGED <<statSize, optimizedPath, audioPath, speedFactor>>
    /\ UNCHANGED <<others, options, tempAudioPath, chunkPaths, planVars, loopVars,
                   mergeVars, outVars, uploaded>>

\* Lines 326-347: the size and the duration of the asset to upload are
\* read and the chunk plan is computed from them.
ProbeAndPlan ==
    /\ pc = "probe"
    /\ \E bytes \in StatSizes(audioPath) :
        /\ fileSizeBytes' = bytes
        /\ statSize' = audioPath :> bytes @@ statSize
        /\ \/ \E duration \in SourceDurations :
                /\ durationOptimized' = duration
                /\ originalDurationSeconds' = DurationOriginal(duration, speedFactor)
                /\ shouldChunk' = ShouldChunk(chunkMinutes, bytes, duration, speedFactor)
                /\ IF shouldChunk'
                   THEN /\ chunkSecondsOriginal' = ChunkSecondsOriginal(chunkMinutes)
                        /\ chunkSecondsOptimized' =
                              ChunkSecondsOptimized(chunkSecondsOriginal', speedFactor)
                        /\ pc' = "split"
                   ELSE /\ UNCHANGED <<chunkSecondsOriginal, chunkSecondsOptimized>>
                        /\ pc' = "single"
                /\ error' = error
           \/ /\ error' = "FFprobe failed"
              /\ pc' = "finally"
              /\ UNCHANGED <<durationOptimized, originalDurationSeconds,
                             shouldChunk, chunkSecondsOriginal,
                             chunkSecondsOptimized>>
    /\ UNCHANGED <<others, options, files, audioPath, tempAudioPath, optimizedPath,
                   chunkPaths, speedFactor, loopVars, mergedSegments,
                   mergedText, language, responses, outVars, uploaded>>

Created(n) == [k \in 1..n |-> ChunkPath(audioPath, k - 1)]
Range(seq) == {seq[k] : k \in DOMAIN seq}
\* Variant: only the first chunk is compared with the ceiling.
TooLargeFirstOnly(sizes) ==
    IF sizes # <<>> /\ sizes[1] > MAX_UPLOAD_BYTES THEN 1 ELSE 0
\* Array.prototype.find: the index of the first chunk over the ceiling, or 0.
TooLarge(sizes) ==
    IF \E k \in DOMAIN sizes : sizes[k] > MAX_UPLOAD_BYTES
    THEN CHOOSE k \in DOMAIN sizes :
            /\ sizes[k] > MAX_UPLOAD_BYTES
            /\ \A j \in 1..(k - 1) : ~(sizes[j] > MAX_UPLOAD_BYTES)
    ELSE 0

\* splitAudioIntoChunks, lines 156-222, and lines 350-354: ffmpeg writes n
\* chunk files; they are listed, their sizes are read up to the first one
\* over the ceiling, and the list is returned only if there is none.
SplitAudioIntoChunks ==
    /\ pc = "split"
    /\ IF chunkSecondsOptimized <= 0
       THEN /\ error' = "Invalid chunkSeconds"
            /\ pc' = "finally"
            /\ UNCHANGED <<files, statSize, chunkPaths, i,
                           offsetOptimizedSeconds, totalOptimizedSeconds>>
       ELSE \E n \in 0..MaxChunks :
            /\ files' = files \cup Range(Created(n))
            /\ \/ /\ error' = "FFmpeg chunking failed"
                  /\ pc' = "finally"
                  /\ UNCHANGED <<statSize, chunkPaths, i,
                                 offsetOptimizedSeconds, totalOptimizedSeconds>>
               \/ \E sizes \in [1..n -> ChunkSizes] :
                    LET created == Created(n)
                        tooLarge == TooLarge(sizes)
                        seen == IF tooLarge = 0 THEN 1..n ELSE 1..tooLarge
                    IN  /\ statSize' = [p \in DOMAIN statSize \cup
                                              {created[k] : k \in seen} |->
                                IF \E k \in seen : created[k] = p
                                THEN sizes[CHOOSE k \in seen : created[k] = p]
                                ELSE statSize[p]]
                        /\ IF n = 0
                           THEN /\ error' = "Chunking produced no output files"
                                /\ pc' = "finally"
                                /\ UNCHANGED <<chunkPaths, i,
                                               offsetOptimizedSeconds,
                                               totalOptimizedSeconds>>
                           ELSE IF tooLarge # 0
                           THEN /\ error' = "Audio chunk is still too large"
                                /\ pc' = "finally"
                                /\ UNCHANGED <<chunkPaths, i,
                                               offsetOptimizedSeconds,
                                               totalOptimizedSeconds>>
                           ELSE /\ chunkPaths' = created
                                /\ i' = 0
                                /\ offsetOptimizedSeconds' = 0
                                /\ totalOptimizedSeconds' = 0
                                /\ pc' = "chunk_probe"
                                /\ error' = error
    /\ UNCHANGED <<others, options, audioPath, tempAudioPath, optimizedPath,
                   speedFactor, planVars, probed, mergeVars, outVars, uploaded>>

\* Line 360: ffprobe on the chunk file itself.
ProbeChunk ==
    /\ pc = "chunk_probe"
    /\ \/ \E chunkDuration \in ChunkDurations :
            /\ probed' = Append(probed, chunkDuration)
            /\ pc' = "chunk_transcribe"
            /\ error' = error
       \/ /\ error' = "FFprobe failed"
          /\ pc' = "finally"
          /\ probed' = probed
    /\ UNCHANGED <<others, options, files, statSize, audioPath, tempAudioPath,
                   optimizedPath, chunkPaths, speedFactor, planVars, i,
                   offsetOptimizedSeconds, totalOptimizedSeconds, mergeVars,
                   outVars, uploaded>>

\* Lines 234-245: the content type declared for an upload, by extension.
mimeTypes ==
    [e \in {"mp3", "mp4", "m4a", "wav", "ogg", "webm", "flac"} |->
        CASE e = "mp3"  -> "audio/mpeg"
          [] e = "mp4"  -> "audio/mp4"
          [] e = "m4a"  -> "audio/mp4"
          [] e = "wav"  -> "audio/wav"
          [] e = "ogg"  -> "audio/ogg"
          [] e = "webm" -> "audio/webm"
          [] e = "flac" -> "audio/flac"]
mimeType(ext) ==
    IF ext \in DOMAIN mimeTypes THEN mimeTypes[ext]
    ELSE "application/octet-stream"

\* What the service is sent: the file, its bytes, its declared content type.
Upload(path) == <<path, statSize[path], mimeType(Ext(path))>>

\* Lines 361-382: the chunk is uploaded, its transcript is merged, the
\* offset advances by the chunk's probed duration, and after the last chunk
\* the total duration is computed.
TranscribeChunk ==
    /\ pc = "chunk_transcribe"
    /\ LET chunkPath == ChunkAt(chunkPaths, i)
           chunkDuration == probed[i + 1]
       IN
       \/ \E chunkTranscription \in WhisperResponses :
            /\ uploaded' = Append(uploaded, Upload(chunkPath))
            /\ responses' = Append(responses, chunkTranscription)
            /\ language' = MergeLanguage(i, language, chunkTranscription.language)
            /\ mergedText' = mergedText \o chunkTranscription.text \o <<"\n">>
            /\ mergedSegments' = mergedSegments \o
                  transformSegments(chunkTranscription.segments,
                                    offsetOptimizedSeconds, speedFactor,
                                    offsetSeconds)
            /\ offsetOptimizedSeconds' =
                  AdvanceOffset(offsetOptimizedSeconds, chunkDuration)
            /\ totalOptimizedSeconds' =
                  AdvanceOffset(totalOptimizedSeconds, chunkDuration)
            /\ i' = i + 1
            /\ IF i' < Len(chunkPaths)
               THEN /\ pc' = "chunk_probe"
                    /\ UNCHANGED originalDurationSeconds
               ELSE /\ originalDurationSeconds' =
                          TotalOriginalDuration(totalOptimizedSeconds',
                                                speedFactor)
                    /\ pc' = "reconciled"
            /\ error' = error
       \/ /\ uploaded' \in {uploaded, Append(uploaded, Upload(chunkPath))}
          /\ error' = "Transcription failed"
          /\ pc' = "finally"
          /\ UNCHANGED <<mergeVars, i, offsetOptimizedSeconds,
                         totalOptimizedSeconds>>
    /\ UNCHANGED <<others, options, files, statSize, audioPath, tempAudioPath,
                   optimizedPath, chunkPaths, speedFactor, planVars, probed,
                   outVars>>

\* Variant: a failed upload is tried again.
TranscribeSingleRetry ==
    /\ pc = "single"
    /\ Len(uploaded) < 2
    /\ uploaded' = Append(uploaded, Upload(audioPath))
    /\ UNCHANGED <<others, options, files, statSize, audioPath, tempAudioPath,
                   optimizedPath, chunkPaths, speedFactor, planVars, loopVars,
                   mergeVars, outVars, pc, error>>
\* Lines 386-391: the single-asset path.
TranscribeSingle ==
    /\ pc = "single"
    /\ \/ \E transcription \in WhisperResponses :
            /\ uploaded' = Append(uploaded, Upload(audioPath))
            /\ responses' = Append(responses, transcription)
            /\ language' = transcription.language
            /\ mergedText' = transcription.text
            /\ mergedSegments' =
                  transformSegmentsSingle(transcription.segments, speedFactor,
                                          offsetSeconds)
            /\ originalDurationSeconds' = transcription.duration * speedFactor
            /\ pc' = "reconciled"
            /\ error' = error
       \/ /\ uploaded' \in {uploaded, Append(uploaded, Upload(audioPath))}
          /\ error' = "Transcription failed"
          /\ pc' = "finally"
          /\ UNCHANGED mergeVars
    /\ UNCHANGED <<others, options, files, statSize, audioPath, tempAudioPath,
                   optimizedPath, chunkPaths, speedFactor, planVars, loopVars,
                   outVars>>

\* Lines 397-413: the merged segments are sorted in place and rendered, the
\* document is written and the result is returned.
SerializeAndWrite ==
    /\ pc = "reconciled"
    /\ mergedSegments' = SortByStart(mergedSegments)
    /\ srt' = convertSegmentsToSRT(mergedSegments')
    /\ \/ /\ files' = files \cup {SrtPath}
          /\ result' = [srtPath |-> SrtPath, text |-> Trim(mergedText),
                        language |-> language,
                        duration |-> originalDurationSeconds]
          /\ error' = error
       \/ /\ files' = files
          /\ error' = "write failed"
          /\ result' = result
    /\ pc' = "finally"
    /\ UNCHANGED <<others, options, statSize, audioPath, tempAudioPath, optimizedPath,
                   chunkPaths, speedFactor, planVars, loopVars, mergedText,
                   language, originalDurationSeconds, responses, uploaded>>

\* Variant: the finally block unlinks only the chunks the loop has reached.
CleanupTranscribedOnly ==
    /\ pc = "finally"
    /\ LET removed == ({chunkPaths[k] : k \in 1..i} \cup
                         {tempAudioPath, optimizedPath}) \ {NoPath}
       IN  /\ files' = files \ removed
           /\ statSize' = Forget(statSize, removed)
    /\ pc' = IF error = "" THEN "done" ELSE "rejected"
    /\ UNCHANGED <<others, options, audioPath, tempAudioPath, optimizedPath,
                   chunkPaths, speedFactor, planVars, loopVars, mergeVars,
                   outVars, error, uploaded>>
\* Variant: the finally block also unlinks audioPath, whatever it is.
CleanupWithAudioPath ==
    /\ pc = "finally"
    /\ LET removed == (Range(chunkPaths) \cup
                         {tempAudioPath, optimizedPath, audioPath}) \ {NoPath}
       IN  /\ files' = files \ removed
           /\ statSize' = Forget(statSize, removed)
    /\ pc' = IF error = "" THEN "done" ELSE "rejected"
    /\ UNCHANGED <<others, options, audioPath, tempAudioPath, optimizedPath,
                   chunkPaths, speedFactor, planVars, loopVars, mergeVars,
                   outVars, error, uploaded>>
\* Lines 414-430: the finally block unlinks the chunk files of chunkPaths,
\* tempAudioPath and optimizedPath, then the run resolves or rejects.
Cleanup ==
    /\ pc = "finally"
    /\ LET removed == (Range(chunkPaths) \cup {tempAudioPath, optimizedPath})
                        \ {NoPath}
       IN  /\ files' = files \ removed
           /\ statSize' = Forget(statSize, removed)
    /\ pc' = IF error = "" THEN "done" ELSE "rejected"
    /\ UNCHANGED <<others, options, audioPath, tempAudioPath, optimizedPath,
                   chunkPaths, speedFactor, planVars, loopVars, mergeVars,
                   outVars, error, uploaded>>

Next ==
    \/ Validate
    \/ ExtractAudio
    \/ SkipOptimize
    \/ OptimizeSpeed
    \/ OptimizeCompress
    \/ ProbeAndPlan
    \/ SplitAudioIntoChunks
    \/ ProbeChunk
    \/ TranscribeChunk
    \/ TranscribeSingle
    \/ SerializeAndWrite
    \/ Cleanup

Spec == Init /\ [][Next]_vars

---------------------------------------------------------------------------
(* The timestamp functions: parseTimeToSeconds (cli.ts), the single-asset   *)
(* transform and formatTime (transcribe.ts), adjustSRTTimestamps            *)
(* (optimize.ts), applied one after the other to one time value.  A string  *)
(* is a sequence of one-character strings.                                  *)

\* The --offset arguments tried: 0, 5, -5, 1.5, 0:05, -1:30, empty, x.
OffsetArgs ==
    { <<"0">>, <<"5">>, <<"-", "5">>, <<"1", ".", "5">>,
      <<"0", ":", "0", "5">>, <<"-", "1", ":", "3", "0">>, <<>>, <<"x">> }
\* Local times of a transcript, in tenths of a second: 0 s, 2.0 s, 3.4 s,
\* 6.8 s and 300000 s (83 h 20 min).
LocalTimes == {0, 20, 34, 68, 3000000}
\* Speed factors, in tenths: 0.5, 1.0 and 1.2.
SpeedFactors == {5, Scale, SPEED_FACTOR}

DigitOf ==
    [c \in {"0", "1", "2", "3", "4", "5", "6", "7", "8", "9"} |->
        CASE c = "0" -> 0 [] c = "1" -> 1 [] c = "2" -> 2 [] c = "3" -> 3
          [] c = "4" -> 4 [] c = "5" -> 5 [] c = "6" -> 6 [] c = "7" -> 7
          [] c = "8" -> 8 [] c = "9" -> 9]
IsDigit(c) == c \in DOMAIN DigitOf
RECURSIVE DigitRun(_)
\* The length of the run of digits a string starts with.
DigitRun(str) ==
    IF str # <<>> /\ IsDigit(Head(str)) THEN 1 + DigitRun(Tail(str)) ELSE 0
RECURSIVE NaturalOf(_)
NaturalOf(digits) ==
    IF digits = <<>> THEN 0
    ELSE NaturalOf(SubSeq(digits, 1, Len(digits) - 1)) * 10
            + DigitOf[digits[Len(digits)]]

\* parseFloat: an optional minus sign, digits, an optional fraction; what
\* follows is ignored.  <<>> is NaN, <<v>> the value in tenths (the strings
\* tried have at most one digit after the point).
parseFloat(str) ==
    LET neg   == str # <<>> /\ Head(str) = "-"
        body  == IF neg THEN Tail(str) ELSE str
        n     == DigitRun(body)
        rest  == SubSeq(body, n + 1, Len(body))
        frac  == Len(rest) >= 2 /\ rest[1] = "." /\ IsDigit(rest[2])
        mag   == NaturalOf(SubSeq(body, 1, n)) * Scale
                    + (IF frac THEN DigitOf[rest[2]] ELSE 0)
    IN  IF n = 0 /\ ~frac THEN <<>>
        ELSE <<IF neg THEN -mag ELSE mag>>

\* /^-?\d+(\.\d+)?$/
IsPlainSeconds(str) ==
    LET body == IF str # <<>> /\ Head(str) = "-" THEN Tail(str) ELSE str
        n    == DigitRun(body)
        rest == SubSeq(body, n + 1, Len(body))
    IN  /\ n >= 1
        /\ \/ rest = <<>>
           \/ /\ Len(rest) >= 2
              /\ rest[1] = "."
              /\ DigitRun(Tail(rest)) = Len(rest) - 1

RECURSIVE ReplaceFirstComma(_)
ReplaceFirstComma(str) ==
    IF str = <<>> THEN <<>>
    ELSE IF Head(str) = "," THEN <<".">> \o Tail(str)
    ELSE <<Head(str)>> \o ReplaceFirstComma(Tail(str))

RECURSIVE SplitColon(_)
\* String.prototype.split(':')
SplitColon(str) ==
    IF \A k \in DOMAIN str : str[k] # ":" THEN <<str>>
    ELSE LET at == CHOOSE k \in DOMAIN str :
                      str[k] = ":" /\ \A j \in 1..(k - 1) : str[j] # ":"
         IN  <<SubSeq(str, 1, at - 1)>>
                \o SplitColon(SubSeq(str, at + 1, Len(str)))

\* parseTimeToSeconds: <<v>> is the offset in tenths, <<>> a thrown error.
parseTimeToSeconds(input) ==
    LET raw   == Trim(input)
        parts == SplitColon(ReplaceFirstComma(raw))
        nums  == [k \in DOMAIN parts |-> parseFloat(parts[k])]
    IN  IF raw = <<>> THEN <<>>
        ELSE IF IsPlainSeconds(raw) THEN parseFloat(raw)
        ELSE IF \E k \in DOMAIN nums : nums[k] = <<>> THEN <<>>
        ELSE IF Len(parts) = 2 THEN <<nums[1][1] * 60 + nums[2][1]>>
        ELSE IF Len(parts) = 3
             THEN <<nums[1][1] * 3600 + nums[2][1] * 60 + nums[3][1]>>
        ELSE <<>>

\* A timestamp as the text formatTime wrote: the hours are padded to two
\* digits, so the text is a minus sign (if any), the hour digits left of the
\* last two, the last two hour digits, and the three other fields.
Abs(n) == IF n >= 0 THEN n ELSE -n
AsText(stamp) ==
    [negative |-> stamp.hours < 0,
     kept     |-> Abs(stamp.hours) \div 100,
     hours    |-> Abs(stamp.hours) % 100,
     minutes  |-> stamp.minutes,
     secs     |-> stamp.secs,
     millis   |-> stamp.millis]

\* /\d{2}:\d{2}:\d{2},\d{3}/ finds two digits, a colon, two digits, a colon,
\* two digits, a comma and three digits: a field with a minus sign has no
\* match, and of the hours only the last two digits are inside the match.
TimestampMatches(stamp) ==
    /\ stamp.minutes >= 0
    /\ stamp.secs >= 0
    /\ stamp.millis >= 0
    /\ stamp.hours >= 0 \/ stamp.hours <= -10

\* Math.round(totalMs / speedFactor), the factor in tenths.
AdjustedMs(totalMs, factor) ==
    LET whole == (totalMs \div factor) * Scale
                    + ((totalMs % factor) * Scale) \div factor
        rem   == ((totalMs % factor) * Scale) % factor
    IN  IF 2 * rem >= factor THEN whole + 1 ELSE whole

\* adjustSRTTimestamps on one timestamp.
adjustSRTTimestamps(stamp, factor) ==
    IF factor = Scale \/ ~TimestampMatches(stamp) THEN AsText(stamp)
    ELSE LET matched    == AsText(stamp)
             totalMs    == (matched.hours * 3600 + matched.minutes * 60
                               + matched.secs) * 1000 + matched.millis
             adjustedMs == AdjustedMs(totalMs, factor)
         IN  [matched EXCEPT
                 !.hours   = adjustedMs \div 3600000,
                 !.minutes = (adjustedMs % 3600000) \div 60000,
                 !.secs    = (adjustedMs % 60000) \div 1000,
                 !.millis  = adjustedMs % 1000]

InitTimes ==
    /\ MainIdle
    /\ CliIdle
    /\ ListingIdle
    /\ SharedIdle
    /\ tmPc = "args"
    /\ tmRaw \in OffsetArgs
    /\ tmOffset = 0
    /\ tmT \in LocalTimes
    /\ tmF \in SpeedFactors
    /\ tmSeconds = 0
    /\ tmStamp = <<>>
    /\ tmAdjusted = <<>>

\* cli.ts, lines 160-168: --offset is parsed; a throw ends the process.
ParseOffset ==
    /\ tmPc = "args"
    /\ LET parsed == parseTimeToSeconds(tmRaw)
       IN  IF parsed = <<>>
           THEN /\ tmPc' = "failed"
                /\ tmOffset' = tmOffset
           ELSE /\ tmPc' = "parsed"
                /\ tmOffset' = parsed[1]
    /\ UNCHANGED <<mainVars, listVars, sharedVars, cliVars, tmRaw, tmT, tmF, tmSeconds, tmStamp, tmAdjusted>>

\* transcribe.ts, line 390: t * speedFactor + offsetSeconds.
TransformTime ==
    /\ tmPc = "parsed"
    /\ tmSeconds' = SingleTransform(tmT, tmF, tmOffset)
    /\ tmPc' = "transformed"
    /\ UNCHANGED <<mainVars, listVars, sharedVars, cliVars, tmRaw, tmOffset, tmT, tmF, tmStamp, tmAdjusted>>

\* transcribe.ts, line 28: the time is rendered.
RenderTime ==
    /\ tmPc = "transformed"
    /\ tmStamp' = formatTime(tmSeconds)
    /\ tmPc' = "rendered"
    /\ UNCHANGED <<mainVars, listVars, sharedVars, cliVars, tmRaw, tmOffset, tmT, tmF, tmSeconds, tmAdjusted>>

\* optimize.ts, lines 94-118: the inverse adjustment of the rendered time.
AdjustTime ==
    /\ tmPc = "rendered"
    /\ tmAdjusted' = adjustSRTTimestamps(tmStamp, tmF)
    /\ tmPc' = "adjusted"
    /\ UNCHANGED <<mainVars, listVars, sharedVars, cliVars, tmRaw, tmOffset, tmT, tmF, tmSeconds, tmStamp>>

NextTimes ==
    \/ ParseOffset
    \/ TransformTime
    \/ RenderTime
    \/ AdjustTime

SpecTimes == InitTimes /\ [][NextTimes]_vars

---------------------------------------------------------------------------
(* The listing of the chunk files (splitAudioIntoChunks, lines 161-203).    *)
(* A file name is the time stamp of its prefix, the index ffmpeg gave it,   *)
(* and the characters after "chunks_<stamp>_", as UTF-16 code units.        *)

MaxListed == 1001
ChunkCounts == 0..30 \cup {999, 1000, MaxListed}

DotCode == 46
DigitCode(d) == 48 + d
\* ".mp3"
ExtCodes == <<DotCode, 109, 112, 51>>

RECURSIVE Decimal(_)
Decimal(k) ==
    IF k < 10 THEN <<DigitCode(k)>>
    ELSE Append(Decimal(k \div 10), DigitCode(k % 10))
\* printf's %03d: zero-padded to three digits, wider when the number is.
Padded3(k) ==
    IF k < 10 THEN <<DigitCode(0), DigitCode(0)>> \o Decimal(k)
    ELSE IF k < 100 THEN <<DigitCode(0)>> \o Decimal(k)
    ELSE Decimal(k)

ChunkName(stamp, k) ==
    [stamp |-> stamp, index |-> k, rest |-> Padded3(k) \o ExtCodes]

\* A chunk file an earlier split left in the directory.
StaleChunk == ChunkName(0, 0)
\* Date.now() of this split.
ListingStamp == 1

\* name.startsWith(`${prefix}_`) && name.toLowerCase().endsWith(`.${ext}`)
IsCreated(name) ==
    /\ name.stamp = ListingStamp
    /\ Len(name.rest) >= Len(ExtCodes)
    /\ SubSeq(name.rest, Len(name.rest) - Len(ExtCodes) + 1, Len(name.rest))
           = ExtCodes

\* The default comparison of Array.prototype.sort: by UTF-16 code units, a
\* proper prefix first.
RECURSIVE CodesLess(_, _)
CodesLess(a, b) ==
    IF b = <<>> THEN FALSE
    ELSE IF a = <<>> THEN TRUE
    ELSE IF Head(a) # Head(b) THEN Head(a) < Head(b)
    ELSE CodesLess(Tail(a), Tail(b))
NameLess(a, b) == CodesLess(a.rest, b.rest)

InitListing ==
    /\ MainIdle
    /\ CliIdle
    /\ TimesIdle
    /\ SharedIdle
    /\ lsPc = "split"
    /\ lsCount \in ChunkCounts
    /\ lsDir \in {<<>>, <<StaleChunk>>}
    /\ lsCreated = <<>>

\* Lines 166-198: ffmpeg writes the chunk files; readdir returns them in no
\* particular order (here: the last one first).
RunSegmenter ==
    /\ lsPc = "split"
    /\ lsDir' = [r \in 1..lsCount |-> ChunkName(ListingStamp, lsCount - r)]
                   \o lsDir
    /\ lsPc' = "written"
    /\ UNCHANGED <<mainVars, timeVars, sharedVars, cliVars, lsCount, lsCreated>>

\* Lines 200-207: the directory is read, filtered and sorted.
ListCreated ==
    /\ lsPc = "written"
    /\ lsCreated' = SortSeq(SelectSeq(lsDir, IsCreated), NameLess)
    /\ lsPc' = IF lsCreated' = <<>> THEN "empty" ELSE "listed"
    /\ UNCHANGED <<mainVars, timeVars, sharedVars, cliVars, lsCount, lsDir>>

NextListing ==
    \/ RunSegmenter
    \/ ListCreated

SpecListing == InitListing /\ [][NextListing]_vars

---------------------------------------------------------------------------
(* Two runs of transcribe() whose inputs are in one directory.  A file is   *)
(* named by its kind, the base name or the Date.now() value in its name,    *)
(* its index and its extension; the directory records for each file which   *)
(* run created it and which run wrote it last (0: neither, it was there).   *)

Runs == {1, 2}
MaxNow == 2
MaxSharedChunks == 2

File(kind, base, stamp, idx, ext) ==
    [kind |-> kind, base |-> base, stamp |-> stamp, idx |-> idx, ext |-> ext]
NoFile == File("null", "", 0, 0, "")
VideoInput == File("input", "a", 0, 0, "mp4")
AudioInput == File("input", "b", 0, 0, "mp3")
\* join(dir, `${baseName}_temp.mp3`)
TempFile(input) == File("temp", input.base, 0, 0, "mp3")
\* join(dir, `optimized_speed_${Date.now()}.mp3`)
SpeedFile(now) == File("optimized_speed", "", now, 0, "mp3")
\* join(dir, `optimized_final_${Date.now()}.ogg`)
FinalFile(now) == File("optimized_final", "", now, 0, "ogg")
\* join(dir, `chunks_${Date.now()}_%03d.${ext}`)
ChunkFile(now, k, ext) == File("chunk", "", now, k, ext)
SrtFile(input) == File("srt", input.base, 0, 0, "srt")

TemporaryKinds == {"temp", "optimized_speed", "optimized_final", "chunk"}

Untouched == [creator |-> 0, writer |-> 0]

\* The directory after run r has written the files of P (ffmpeg -y and
\* writeFile replace a file that exists).
Written(disk, P, r) ==
    [q \in DOMAIN disk \cup P |->
        IF q \in P
        THEN [creator |-> IF q \in DOMAIN disk THEN disk[q].creator ELSE r,
              writer  |-> r]
        ELSE disk[q]]
Removed(disk, P) == [q \in DOMAIN disk \ P |-> disk[q]]

\* The accesses of kind op by run r to temporary files of P that another
\* run created or wrote last.
Foreign(disk, P, r, op) ==
    {[run |-> r, op |-> op, path |-> q] :
        q \in {q \in P \cap DOMAIN disk :
                  /\ q.kind \in TemporaryKinds
                  /\ \/ disk[q].creator \in Runs \ {r}
                     \/ disk[q].writer \in Runs \ {r}}}

InitShared ==
    /\ MainIdle
    /\ CliIdle
    /\ TimesIdle
    /\ ListingIdle
    /\ shPc \in [Runs -> {"start", "absent"}]
    /\ shPc[1] = "start"
    /\ shInput \in [Runs -> {VideoInput, AudioInput}]
    /\ shOptimize \in [Runs -> BOOLEAN]
    /\ shNow = 1
    /\ shDisk \in {[q \in {VideoInput, AudioInput} \cup P |-> Untouched] :
                      P \in {{}, {TempFile(VideoInput)}}}
    /\ shBefore = shDisk
    /\ shAudio = [r \in Runs |-> NoFile]
    /\ shTemp = [r \in Runs |-> NoFile]
    /\ shOptimized = [r \in Runs |-> NoFile]
    /\ shChunks = [r \in Runs |-> <<>>]
    /\ shError = [r \in Runs |-> FALSE]
    /\ shLog = {}

notShared == <<mainVars, timeVars, listVars, cliVars>>

\* Lines 280-309: the input exists and is supported; for a video the path
\* of the extracted audio is fixed.
ShStart(r) ==
    /\ shPc[r] = "start"
    /\ shAudio' = [shAudio EXCEPT ![r] = shInput[r]]
    /\ IF shInput[r].ext \in videoFormats
       THEN /\ shTemp' = [shTemp EXCEPT ![r] = TempFile(shInput[r])]
            /\ shPc' = [shPc EXCEPT ![r] = "extract"]
       ELSE /\ shTemp' = shTemp
            /\ shPc' = [shPc EXCEPT ![r] = "optimize"]
    /\ UNCHANGED <<notShared, shInput, shOptimize, shNow, shDisk, shBefore,
                   shOptimized, shChunks, shError, shLog>>

\* Lines 310-312: ffmpeg -y writes tempAudioPath, replacing what is there;
\* a failure rejects outside the try block.
ShExtract(r) ==
    /\ shPc[r] = "extract"
    /\ \E ok \in BOOLEAN, wrote \in BOOLEAN :
        /\ ok => wrote
        /\ shDisk' = IF wrote THEN Written(shDisk, {shTemp[r]}, r) ELSE shDisk
        /\ shLog' = IF wrote
                    THEN shLog \cup Foreign(shDisk, {shTemp[r]}, r, "write")
                    ELSE shLog
        /\ IF ok
           THEN /\ shAudio' = [shAudio EXCEPT ![r] = shTemp[r]]
                /\ shPc' = [shPc EXCEPT ![r] = "optimize"]
                /\ shError' = shError
           ELSE /\ shAudio' = shAudio
                /\ shPc' = [shPc EXCEPT ![r] = "rejected"]
                /\ shError' = [shError EXCEPT ![r] = TRUE]
    /\ UNCHANGED <<notShared, shInput, shOptimize, shNow, shBefore, shTemp,
                   shOptimized, shChunks>>

\* Line 317 with optimize = false.
ShSkipOptimize(r) ==
    /\ shPc[r] = "optimize"
    /\ ~shOptimize[r]
    /\ shPc' = [shPc EXCEPT ![r] = "transcribe"]
    /\ UNCHANGED <<notShared, shInput, shOptimize, shNow, shDisk, shBefore,
                   shAudio, shTemp, shOptimized, shChunks, shError, shLog>>

\* Lines 318-324 and optimizeAudio: the asset is read and the speed-optimized
\* file is written under a name made of Date.now(); it is returned, or the
\* compressed file is written under a second Date.now() and the
\* speed-optimized file is unlinked.  statSync throws when the asset is gone.
ShOptimizeAudio(r) ==
    /\ shPc[r] = "optimize"
    /\ shOptimize[r]
    /\ IF shAudio[r] \notin DOMAIN shDisk
       THEN /\ shError' = [shError EXCEPT ![r] = TRUE]
            /\ shPc' = [shPc EXCEPT ![r] = "finally"]
            /\ UNCHANGED <<shNow, shDisk, shAudio, shOptimized, shLog>>
       ELSE \E now \in shNow..MaxNow :
            LET speed  == SpeedFile(now)
                read   == Foreign(shDisk, {shAudio[r]}, r, "read")
                sped   == Written(shDisk, {speed}, r)
                write1 == Foreign(shDisk, {speed}, r, "write")
            IN  \/ /\ shDisk' = sped
                   /\ shLog' = shLog \cup read \cup write1
                   /\ shNow' = now
                   /\ shOptimized' = [shOptimized EXCEPT ![r] = speed]
                   /\ shAudio' = [shAudio EXCEPT ![r] = speed]
                   /\ shPc' = [shPc EXCEPT ![r] = "transcribe"]
                   /\ shError' = shError
                \/ \E later \in now..MaxNow :
                       /\ shDisk' = Removed(Written(sped, {FinalFile(later)}, r),
                                            {speed})
                       /\ shLog' = shLog \cup read \cup write1
                              \cup Foreign(sped, {FinalFile(later)}, r, "write")
                              \cup Foreign(sped, {speed}, r, "delete")
                       /\ shNow' = later
                       /\ shOptimized' =
                              [shOptimized EXCEPT ![r] = FinalFile(later)]
                       /\ shAudio' = [shAudio EXCEPT ![r] = FinalFile(later)]
                       /\ shPc' = [shPc EXCEPT ![r] = "transcribe"]
                       /\ shError' = shError
                \/ /\ shDisk' \in {shDisk, sped}
                   /\ shLog' = IF shDisk' = shDisk THEN shLog \cup read
                               ELSE shLog \cup read \cup write1
                   /\ shNow' = now
                   /\ shError' = [shError EXCEPT ![r] = TRUE]
                   /\ shPc' = [shPc EXCEPT ![r] = "finally"]
                   /\ UNCHANGED <<shAudio, shOptimized>>
    /\ UNCHANGED <<notShared, shInput, shOptimize, shBefore, shTemp, shChunks>>

\* The chunk files of one prefix and extension that exist, by index.
Listed(disk, now, ext) ==
    LET found == {k \in 0..(MaxSharedChunks - 1) :
                     ChunkFile(now, k, ext) \in DOMAIN disk}
    IN  [n \in 1..Cardinality(found) |->
            ChunkFile(now, CHOOSE k \in found :
                               Cardinality({j \in found : j < k}) = n - 1, ext)]

\* Lines 326-354 and 383-406 (single path): the asset is read (size,
\* duration); then either it is uploaded and the subtitle file is written, or
\* it is split into chunk files under a name made of Date.now(), which are
\* listed by that name.  Each step may fail.
ShTranscribeOrSplit(r) ==
    /\ shPc[r] = "transcribe"
    /\ IF shAudio[r] \notin DOMAIN shDisk
       THEN /\ shError' = [shError EXCEPT ![r] = TRUE]
            /\ shPc' = [shPc EXCEPT ![r] = "finally"]
            /\ UNCHANGED <<shNow, shDisk, shChunks, shLog>>
       ELSE LET read == Foreign(shDisk, {shAudio[r]}, r, "read")
            IN  \/ /\ shDisk' = Written(shDisk, {SrtFile(shInput[r])}, r)
                   /\ shLog' = shLog \cup read
                   /\ shPc' = [shPc EXCEPT ![r] = "finally"]
                   /\ UNCHANGED <<shNow, shChunks, shError>>
                \/ /\ shLog' = shLog \cup read
                   /\ shError' = [shError EXCEPT ![r] = TRUE]
                   /\ shPc' = [shPc EXCEPT ![r] = "finally"]
                   /\ UNCHANGED <<shNow, shDisk, shChunks>>
                \/ \E now \in shNow..MaxNow, n \in 1..MaxSharedChunks,
                      ok \in BOOLEAN :
                       LET ext   == shAudio[r].ext
                           made  == {ChunkFile(now, k, ext) : k \in 0..(n - 1)}
                       IN  /\ shDisk' = Written(shDisk, made, r)
                           /\ shLog' = shLog \cup read
                                  \cup Foreign(shDisk, made, r, "write")
                           /\ shNow' = now
                           /\ IF ok
                              THEN /\ shChunks' = [shChunks EXCEPT
                                          ![r] = Listed(shDisk', now, ext)]
                                   /\ shPc' = [shPc EXCEPT ![r] = "chunks"]
                                   /\ shError' = shError
                              ELSE /\ shChunks' = shChunks
                                   /\ shPc' = [shPc EXCEPT ![r] = "finally"]
                                   /\ shError' = [shError EXCEPT ![r] = TRUE]
    /\ UNCHANGED <<notShared, shInput, shOptimize, shBefore, shAudio, shTemp,
                   shOptimized>>

\* Lines 356-406 (chunked path): each chunk file is probed and uploaded,
\* then the subtitle file is written.  ffprobe fails on a file that is gone.
ShTranscribeChunks(r) ==
    /\ shPc[r] = "chunks"
    /\ LET chunks == {shChunks[r][k] : k \in DOMAIN shChunks[r]}
       IN  /\ shLog' = shLog \cup Foreign(shDisk, chunks, r, "read")
           /\ \/ /\ chunks \subseteq DOMAIN shDisk
                 /\ shDisk' = Written(shDisk, {SrtFile(shInput[r])}, r)
                 /\ shError' = shError
              \/ /\ shDisk' = shDisk
                 /\ shError' = [shError EXCEPT ![r] = TRUE]
    /\ shPc' = [shPc EXCEPT ![r] = "finally"]
    /\ UNCHANGED <<notShared, shInput, shOptimize, shNow, shBefore, shAudio,
                   shTemp, shOptimized, shChunks>>

\* Lines 414-430: the finally block unlinks what chunkPaths, tempAudioPath
\* and optimizedPath name, if it exists.
ShCleanup(r) ==
    /\ shPc[r] = "finally"
    /\ LET named == {shChunks[r][k] : k \in DOMAIN shChunks[r]}
                        \cup ({shTemp[r], shOptimized[r]} \ {NoFile})
       IN  /\ shDisk' = Removed(shDisk, named)
           /\ shLog' = shLog \cup Foreign(shDisk, named, r, "delete")
    /\ shPc' = [shPc EXCEPT ![r] = IF shError[r] THEN "rejected" ELSE "done"]
    /\ UNCHANGED <<notShared, shInput, shOptimize, shNow, shBefore, shAudio,
                   shTemp, shOptimized, shChunks, shError>>

NextShared ==
    \/ \E r \in Runs : ShStart(r)
    \/ \E r \in Runs : ShExtract(r)
    \/ \E r \in Runs : ShSkipOptimize(r)
    \/ \E r \in Runs : ShOptimizeAudio(r)
    \/ \E r \in Runs : ShTranscribeOrSplit(r)
    \/ \E r \in Runs : ShTranscribeChunks(r)
    \/ \E r \in Runs : ShCleanup(r)

SpecShared == InitShared /\ [][NextShared]_vars

---------------------------------------------------------------------------
(* The command line program (cli.ts, main).  process.exit ends the process  *)
(* at once: nothing after it runs, a finally block included.                *)

CliInputs == {"none", "missing.mp3", "talk.mp3", "https://youtu.be/id"}
CliOutputArgs == {"null", "out.srt", "subs"}
CliOffsetArgs == {<<>>, << <<"-", "5">> >>, << <<>> >>, << <<"x">> >>}
CliChunkArgs == {<<>>, << <<"1", "5">> >>, << <<"0">> >>, << <<"x">> >>}

\* The file downloadYouTubeAudio writes: join(tmpdir(), `${title}_${Date.now()}.mp3`)
DownloadPath == "tmp/title_1.mp3"

\* youtube.ts, lines 6-9.
isYouTubeUrl(input) == input = "https://youtu.be/id"

InitCli ==
    /\ MainIdle
    /\ TimesIdle
    /\ ListingIdle
    /\ SharedIdle
    /\ clPc = "args"
    /\ clInput \in CliInputs
    /\ clUnknownOption \in BOOLEAN
    /\ clUseRaw \in BOOLEAN
    /\ clOutputArg \in CliOutputArgs
    /\ clOffsetRaw \in CliOffsetArgs
    /\ clChunkRaw \in CliChunkArgs
    /\ clApiKey \in BOOLEAN
    /\ clOffsetSeconds = <<>>
    /\ clChunkMinutes = <<>>
    /\ clInputPath = "none"
    /\ clDownloadedFile = "null"
    /\ clOutputPath = "undefined"
    /\ clTmpdir = {}
    /\ clExitCode = -1

notCli == <<mainVars, timeVars, listVars, sharedVars>>
cliArgs == <<clInput, clUnknownOption, clUseRaw, clOutputArg, clOffsetRaw,
             clChunkRaw, clApiKey>>

\* Lines 141-201: the arguments are read.  A missing or unparsable value, an
\* unknown option or a missing input ends the process with code 1 (a throw
\* of parseTimeToSeconds through main().catch, lines 266-269).
ClParseArgs ==
    /\ clPc = "args"
    /\ LET offset == IF clOffsetRaw = <<>> THEN <<>>
                     ELSE parseTimeToSeconds(clOffsetRaw[1])
           chunk  == IF clChunkRaw = <<>> THEN <<>>
                     ELSE parseFloat(clChunkRaw[1])
           bad    == \/ clUnknownOption
                     \/ clOffsetRaw # <<>> /\ (clOffsetRaw[1] = <<>> \/ offset = <<>>)
                     \/ clChunkRaw # <<>> /\ (chunk = <<>> \/ chunk[1] <= 0)
                     \/ clInput = "none"
       IN  IF bad
           THEN /\ clExitCode' = 1
                /\ clPc' = "exited"
                /\ UNCHANGED <<clOffsetSeconds, clChunkMinutes, clInputPath>>
           ELSE /\ clOffsetSeconds' = offset
                /\ clChunkMinutes' = chunk
                /\ clInputPath' = clInput
                /\ clPc' = "key"
                /\ clExitCode' = clExitCode
    /\ UNCHANGED <<notCli, cliArgs, clDownloadedFile, clOutputPath, clTmpdir>>

\* Lines 203-204 and 250-252: getApiKey throws without a key; the catch
\* block ends the process with code 1.
ClGetApiKey ==
    /\ clPc = "key"
    /\ IF clApiKey
       THEN /\ clPc' = "input"
            /\ clExitCode' = clExitCode
       ELSE /\ clPc' = "exited"
            /\ clExitCode' = 1
    /\ UNCHANGED <<notCli, cliArgs, clOffsetSeconds, clChunkMinutes,
                   clInputPath, clDownloadedFile, clOutputPath, clTmpdir>>

\* Lines 206-230: a YouTube input is downloaded into tmpdir (a failed
\* download throws, and may leave what it wrote); a file input must exist;
\* the output path is resolved.
ClResolveInput ==
    /\ clPc = "input"
    /\ LET resolved ==
               IF clOutputArg = "out.srt" THEN "out.srt"
               ELSE IF clOutputArg = "subs"
                    THEN (IF isYouTubeUrl(clInput) THEN "subs/youtube_id.srt"
                          ELSE "subs/talk.srt")
               ELSE IF isYouTubeUrl(clInput) THEN "cwd/youtube_id.srt"
               ELSE "undefined"
       IN  IF isYouTubeUrl(clInput)
           THEN \/ /\ clTmpdir' = clTmpdir \cup {DownloadPath}
                   /\ clDownloadedFile' = DownloadPath
                   /\ clInputPath' = DownloadPath
                   /\ clOutputPath' = resolved
                   /\ clPc' = "transcribe"
                   /\ clExitCode' = clExitCode
                \/ /\ clTmpdir' \in {clTmpdir, clTmpdir \cup {DownloadPath}}
                   /\ clPc' = "exited"
                   /\ clExitCode' = 1
                   /\ UNCHANGED <<clDownloadedFile, clInputPath, clOutputPath>>
           ELSE IF clInputPath = "missing.mp3"
           THEN /\ clPc' = "exited"
                /\ clExitCode' = 1
                /\ UNCHANGED <<clDownloadedFile, clInputPath, clOutputPath,
                               clTmpdir>>
           ELSE /\ clOutputPath' = resolved
                /\ clPc' = "transcribe"
                /\ UNCHANGED <<clDownloadedFile, clInputPath, clTmpdir,
                               clExitCode>>
    /\ UNCHANGED <<notCli, cliArgs, clOffsetSeconds, clChunkMinutes>>

\* Lines 232-252: transcribe resolves and the result is printed, or it
\* rejects and the catch block ends the process with code 1.
ClTranscribe ==
    /\ clPc = "transcribe"
    /\ \/ /\ clPc' = "finally"
          /\ clExitCode' = clExitCode
       \/ /\ clPc' = "exited"
          /\ clExitCode' = 1
    /\ UNCHANGED <<notCli, cliArgs, clOffsetSeconds, clChunkMinutes,
                   clInputPath, clDownloadedFile, clOutputPath, clTmpdir>>

\* Lines 253-264: the finally block unlinks the downloaded file, and the
\* process ends.
ClFinally ==
    /\ clPc = "finally"
    /\ clTmpdir' = IF clDownloadedFile # "null"
                   THEN clTmpdir \ {clDownloadedFile}
                   ELSE clTmpdir
    /\ clPc' = "exited"
    /\ clExitCode' = IF clExitCode = -1 THEN 0 ELSE clExitCode
    /\ UNCHANGED <<notCli, cliArgs, clOffsetSeconds, clChunkMinutes,
                   clInputPath, clDownloadedFile, clOutputPath>>

NextCli ==
    \/ ClParseArgs
    \/ ClGetApiKey
    \/ ClResolveInput
    \/ ClTranscribe
    \/ ClFinally

SpecCli == InitCli /\ [][NextCli]_vars

---------------------------------------------------------------------------
(* Properties *)

RECURSIVE SumTo(_, _)
\* The sum of the first n elements of a sequence of numbers.
SumTo(seq, n) == IF n = 0 THEN 0 ELSE seq[n] + SumTo(seq, n - 1)

RECURSIVE SegmentsBefore(_)
\* The number of segments in the transcripts of the first n chunks.
SegmentsBefore(n) ==
    IF n = 0 THEN 0 ELSE Len(responses[n].segments) + SegmentsBefore(n - 1)

InChunkLoop == pc \in {"chunk_probe", "chunk_transcribe"}
\* The chunked path, after a chunk was merged and before the sort.
MergedUnsorted == shouldChunk /\ pc \in {"chunk_probe", "chunk_transcribe", "reconciled"}

\* (t + S) * speedFactor + offsetSeconds, t and S in tenths of a second, the
\* result in hundredths.
Mapped(t, S) == (t + S) * speedFactor + offsetSeconds * Scale

\* C1: in the chunked path, every segment and every nested word of chunk c's
\* transcript is output with start and end (t + S_c) * speedFactor +
\* offsetSeconds, where t is the local timestamp and S_c is the sum of the
\* probed durations of the chunks before c.
C1_ChunkTimestamps ==
    MergedUnsorted =>
        \A c \in 1..Len(responses) :
            \A k \in 1..Len(responses[c].segments) :
                LET in  == responses[c].segments[k]
                    out == mergedSegments[SegmentsBefore(c - 1) + k]
                    S   == SumTo(probed, c - 1)
                IN  /\ out.start = Mapped(in.start, S)
                    /\ out.end = Mapped(in.end, S)
                    /\ out.text = in.text
                    /\ Len(out.words) = Len(in.words)
                    /\ \A w \in 1..Len(in.words) :
                        /\ out.words[w].start = Mapped(in.words[w].start, S)
                        /\ out.words[w].end = Mapped(in.words[w].end, S)

\* C1 witness: chunks of 10 s and 15 s came first, speedFactor is 1.2, the
\* offset is 0, and the segment at local time 2.0 of chunk index 2 is at 32.4.
C1_Witness ==
    /\ pc = "reconciled"
    /\ shouldChunk
    /\ speedFactor = SPEED_FACTOR
    /\ offsetSeconds = 0
    /\ Len(responses) = 3
    /\ probed[1] = 100
    /\ probed[2] = 150
    /\ responses[3].segments # <<>>
    /\ responses[3].segments[1].start = 20
    /\ mergedSegments[SegmentsBefore(2) + 1].start = 3240
    /\ mergedSegments[SegmentsBefore(2) + 1].words[1].start = 3240

\* C2: when chunk i is about to be probed or transcribed, the running offset
\* is the sum of the durations probed on the chunk files 0..i-1, whatever
\* their transcripts held and also when a duration is 0.
C2_OffsetIsSumOfProbed ==
    InChunkLoop =>
        /\ offsetOptimizedSeconds = SumTo(probed, i)
        /\ Len(responses) = i
        /\ Len(probed) = (IF pc = "chunk_transcribe" THEN i + 1 ELSE i)

\* C2 witness: chunk 0 had no segment and lasted 15 s, chunk 1 lasted 0 s,
\* the planned length is another value, and chunk 2 sees the offset 15 s.
C2_Witness ==
    /\ pc = "chunk_transcribe"
    /\ i = 2
    /\ responses[1].segments = <<>>
    /\ probed[1] = 150
    /\ probed[2] = 0
    /\ chunkSecondsOptimized # 150
    /\ offsetOptimizedSeconds = 150

IsAscending(segments) ==
    \A p \in 1..(Len(segments) - 1) : segments[p].start <= segments[p + 1].start
\* The segments with start time v, in the order they have in the sequence.
WithStart(segments, v) ==
    LET AtV(x) == x.start = v IN SelectSeq(segments, AtV)
StartsOf(segments) == {segments[k].start : k \in DOMAIN segments}

\* C3: the step that sorts the merged segments and hands them to the
\* serializer leaves them ascending by start time, with the segments of
\* equal start time in the order they were merged in (chunk order, then
\* in-chunk order), and renders exactly that sequence.
C3_SortedStable ==
    [][pc = "reconciled" =>
        /\ IsAscending(mergedSegments')
        /\ Len(mergedSegments') = Len(mergedSegments)
        /\ \A v \in StartsOf(mergedSegments) :
              WithStart(mergedSegments', v) = WithStart(mergedSegments, v)
        /\ Len(srt') = Len(mergedSegments')
        /\ \A k \in 1..Len(srt') :
              srt'[k].start = formatTime(mergedSegments'[k].start)
      ]_vars

\* C3 witness: a chunked run whose transcripts were out of order has been
\* sorted, and a segment of an earlier chunk is followed by a segment of a
\* later chunk with the same start time.
C3_Witness ==
    /\ pc = "finally"
    /\ shouldChunk
    /\ srt # <<>>
    /\ Len(responses) = 2
    /\ ~IsAscending(responses[1].segments)
    /\ \E p \in 1..(Len(mergedSegments) - 1) :
        /\ mergedSegments[p].start = mergedSegments[p + 1].start
        /\ mergedSegments[p].text = responses[1].segments[3].text
        /\ mergedSegments[p + 1].text = responses[2].segments[2].text
        /\ mergedSegments[p].text # mergedSegments[p + 1].text

ChunkOverCeilingSeen ==
    \E p \in DOMAIN statSize :
        p.kind = "chunk" /\ statSize[p] > MAX_UPLOAD_BYTES

\* C4: every upload is at most the ceiling of 24 MiB; and once a produced
\* chunk was found over the ceiling, nothing has been or will be uploaded:
\* the run is on its way out with that error, without splitting again.
C4_NoOversizedUpload ==
    /\ \A u \in 1..Len(uploaded) : uploaded[u][2] <= MAX_UPLOAD_BYTES
    /\ ChunkOverCeilingSeen =>
        /\ uploaded = <<>>
        /\ chunkPaths = <<>>
        /\ pc \in {"finally", "rejected"}
        /\ error = "Audio chunk is still too large"

\* C4 witness: a split produced a chunk over the ceiling and the run has
\* rejected without an upload.
C4_Witness ==
    /\ pc = "rejected"
    /\ ChunkOverCeilingSeen
    /\ error = "Audio chunk is still too large"
    /\ uploaded = <<>>

Finished == pc \in {"done", "rejected"}
\* The intermediate files a run writes.
IntermediateKinds == {"temp", "optimized_speed", "optimized_final", "chunk"}

\* C5: when the run has resolved or rejected, no intermediate file (extracted
\* audio, optimized audio, chunk file) is left.
C5_AllIntermediatesDeleted ==
    Finished => \A f \in files : f.kind \notin IntermediateKinds

ServiceLanguages == {r.language : r \in WhisperResponses}

\* C8: a run that resolves returns the language the service reported for
\* the first upload (chunk 0 in a chunked run), never the placeholder.
C8_LanguageOfFirstChunk ==
    result # <<>> =>
        /\ result.language = responses[1].language
        /\ result.language \in ServiceLanguages
        /\ result.language # "unknown"

\* C8 witness: chunk 0 reported "en", chunks 1 and 2 reported "fr", and the
\* run returned "en".
C8_Witness ==
    /\ pc = "done"
    /\ shouldChunk
    /\ Len(responses) = 3
    /\ responses[1].language = "en"
    /\ responses[2].language = "fr"
    /\ responses[3].language = "fr"
    /\ result.language = "en"

\* C9: in the single-asset path every segment and nested word timestamp t
\* becomes t * speedFactor + offsetSeconds; with speedFactor 1.0 and offset 0
\* it is the input timestamp itself.
C9_SingleTimestamps ==
    ~shouldChunk /\ pc = "reconciled" =>
        /\ Len(responses) = 1
        /\ Len(mergedSegments) = Len(responses[1].segments)
        /\ \A k \in 1..Len(mergedSegments) :
            LET in  == responses[1].segments[k]
                out == mergedSegments[k]
            IN  /\ out.start = in.start * speedFactor + offsetSeconds * Scale
                /\ out.end = in.end * speedFactor + offsetSeconds * Scale
                /\ Len(out.words) = Len(in.words)
                /\ \A w \in 1..Len(in.words) :
                    /\ out.words[w].start =
                          in.words[w].start * speedFactor + offsetSeconds * Scale
                    /\ out.words[w].end =
                          in.words[w].end * speedFactor + offsetSeconds * Scale
                /\ speedFactor = Scale /\ offsetSeconds = 0 =>
                    /\ out.start = in.start * Scale
                    /\ out.end = in.end * Scale

\* C9 witness: a raw (speedFactor 1.0) single-asset run with offset 0 has
\* merged a transcript with segments and a nested word.
C9_Witness ==
    /\ pc = "reconciled"
    /\ ~shouldChunk
    /\ ~optimize
    /\ speedFactor = Scale
    /\ offsetSeconds = 0
    /\ mergedSegments # <<>>
    /\ mergedSegments[1].words # <<>>
    /\ mergedSegments[1].start = 20 * Scale

\* C10: a chunked run that resolves returns as duration the sum of the
\* probed durations of all its chunks times speedFactor.
C10_ChunkedDuration ==
    shouldChunk /\ result # <<>> =>
        /\ Len(probed) = Len(chunkPaths)
        /\ result.duration = SumTo(probed, Len(probed)) * speedFactor
        /\ result.duration = offsetOptimizedSeconds * speedFactor

\* C10 witness: chunks of 10 s, 15 s and 0 s at 1.2x with a user offset of
\* 5 s and speech in the transcripts: the duration returned is 30 s.
C10_Witness ==
    /\ pc = "done"
    /\ shouldChunk
    /\ speedFactor = SPEED_FACTOR
    /\ offsetSeconds = 50
    /\ probed = <<100, 150, 0>>
    /\ responses[1].segments # <<>>
    /\ result.duration = 3000

RECURSIVE JoinContributing(_, _)
\* The texts of the first n transcripts that are not empty, in order, with
\* one newline between two consecutive ones.
JoinContributing(transcripts, n) ==
    IF n = 0 THEN <<>>
    ELSE LET before == JoinContributing(transcripts, n - 1)
             text   == transcripts[n].text
         IN  IF text = <<>> THEN before
             ELSE IF before = <<>> THEN text
             ELSE before \o <<"\n">> \o text

\* C11: a chunked run that resolves returns as text the chunk texts in chunk
\* order with exactly one newline between two consecutive chunks that have
\* text; a chunk with empty text, wherever it sits, adds nothing.
C11_TextSkipsEmptyChunks ==
    shouldChunk /\ result # <<>> =>
        result.text = JoinContributing(responses, Len(responses))

\* How many times x occurs in a sequence.
Occurrences(seq, x) == Cardinality({k \in DOMAIN seq : seq[k] = x})

\* C12: the step that sorts and renders produces exactly one cue per merged
\* segment: with n the number of segments over all transcripts, the cues are
\* numbered 1..n in order, cue k carries the rendered start and end and the
\* trimmed text of the k-th sorted segment, and the sorted sequence holds
\* every merged segment as many times as it was merged.
C12_OneCuePerSegment ==
    [][pc = "reconciled" =>
        /\ Len(mergedSegments) = SegmentsBefore(Len(responses))
        /\ Len(srt') = SegmentsBefore(Len(responses))
        /\ \A x \in Range(mergedSegments) \cup Range(mergedSegments') :
              Occurrences(mergedSegments', x) = Occurrences(mergedSegments, x)
        /\ \A k \in 1..Len(srt') :
              /\ srt'[k].index = k
              /\ srt'[k].start = formatTime(mergedSegments'[k].start)
              /\ srt'[k].end = formatTime(mergedSegments'[k].end)
              /\ srt'[k].text = Trim(mergedSegments'[k].text)
      ]_vars

\* C12 witness: three chunks with speech each were merged, sorted and
\* rendered into nine cues, the text of one of them trimmed.
C12_Witness ==
    /\ pc = "finally"
    /\ shouldChunk
    /\ Len(responses) = 3
    /\ Len(srt) = 9
    /\ srt[9].index = 9
    /\ \E k \in 1..Len(srt) :
        /\ mergedSegments[k].text = <<" ", "bon", " ">>
        /\ srt[k].text = <<"bon">>

\* The hour, minute, second and millisecond of a non-negative time value in
\* hundredths of a second.
ExactTime(h) ==
    [hours   |-> h \div 360000,
     minutes |-> (h % 360000) \div 6000,
     secs    |-> (h % 6000) \div 100,
     millis  |-> (h % 100) * 10]

\* The raw single-asset path with no user offset: t * 1.0 + 0 is t, so a
\* time value reaches formatTime as the service sent it.
RenderedAsReceived ==
    /\ pc \in {"finally", "done", "rejected"}
    /\ srt # <<>>
    /\ ~shouldChunk
    /\ speedFactor = Scale
    /\ offsetSeconds = 0

\* C13: every non-negative time value is rendered with its exact hour,
\* minute, second and millisecond, minutes and seconds in 0..59, milliseconds
\* in 0..999, hours not wrapped, and the text trimmed: a segment ending at
\* 3.4 s is rendered with 00:00:03,400.
C13_ExactFields ==
    RenderedAsReceived =>
        \A k \in 1..Len(srt) :
            /\ srt[k].start = ExactTime(mergedSegments[k].start)
            /\ srt[k].end = ExactTime(mergedSegments[k].end)
            /\ srt[k].text = Trim(mergedSegments[k].text)

\* The asset a run with optimize = false works on: the extracted audio of a
\* video input once it is extracted, the input itself otherwise.
UnoptimizedAsset ==
    IF tempAudioPath # NoPath /\ pc # "extract" /\ tempAudioPath \in files
    THEN tempAudioPath
    ELSE inputPath

\* C14: with optimize = false, speedFactor stays 1.0, no optimized copy is
\* ever written or recorded for cleanup, and the asset that is measured,
\* split and uploaded is the input (or the audio extracted from it) itself.
C14_SkipOptimizeUsesInput ==
    ~optimize =>
        /\ speedFactor = Scale
        /\ optimizedPath = NoPath
        /\ \A f \in files : f.kind \notin {"optimized_speed", "optimized_final"}
        /\ audioPath \in {NoPath, inputPath, tempAudioPath}
        /\ pc \in {"probe", "split", "single"} => audioPath = UnoptimizedAsset
        /\ pc \in {"split", "single"} => fileSizeBytes = statSize[audioPath]
        /\ \A k \in 1..Len(chunkPaths) : chunkPaths[k] = ChunkPath(audioPath, k - 1)
        /\ \A u \in 1..Len(uploaded) :
              uploaded[u][1] \in {audioPath} \cup Range(chunkPaths)

\* C14 witness: a video input with optimize = false was extracted, split and
\* uploaded chunk by chunk, and the run resolved.
C14_Witness ==
    /\ pc = "done"
    /\ ~optimize
    /\ Ext(inputPath) = "mp4"
    /\ audioPath = tempAudioPath
    /\ Len(chunkPaths) = 2
    /\ Len(uploaded) = 2
    /\ result # <<>>

C16_ChunksCoverSource ==
    shouldChunk /\ result # <<>> =>
        SumTo(probed, Len(probed)) = durationOptimized

\* C17: in a chunked run, a chunk is uploaded only when every earlier upload
\* has been answered and its transcript merged, the chunk uploaded is the
\* one whose index is the number of transcripts merged so far, and a step
\* makes at most one upload and merges at most one transcript.
C17_OneChunkAtATime ==
    [][shouldChunk /\ uploaded' # uploaded =>
        /\ Len(uploaded) = Len(responses)
        /\ Len(mergedSegments) = SegmentsBefore(Len(responses))
        /\ i = Len(responses)
        /\ uploaded' = Append(uploaded, Upload(chunkPaths[Len(responses) + 1]))
        /\ \/ responses' = responses
           \/ /\ Len(responses') = Len(responses) + 1
              /\ Len(mergedSegments') = SegmentsBefore(Len(responses))
                                       + Len(responses'[Len(responses')].segments)
      ]_vars

\* C17 witness: chunks 0 and 1 were uploaded, in that order, and merged, and
\* chunk 2 is next.
C17_Witness ==
    /\ pc = "chunk_probe"
    /\ Len(chunkPaths) = 3
    /\ i = 2
    /\ Len(uploaded) = 2
    /\ uploaded[1][1] = chunkPaths[1]
    /\ uploaded[2][1] = chunkPaths[2]
    /\ Len(responses) = 2
    /\ responses[1].segments # <<>>

\* The steps of a run whose failure C18 is about fail with these errors.
StepErrors ==
    {"FFmpeg exited with code 1", "FFmpeg optimization failed",
     "FFmpeg compression failed", "FFprobe failed", "Invalid chunkSeconds",
     "FFmpeg chunking failed", "Chunking produced no output files",
     "Audio chunk is still too large", "Transcription failed"}

\* C18: no asset is uploaded twice; once a step has failed the run only
\* cleans up and rejects with that error: nothing more is probed, split,
\* uploaded or merged, nothing is returned, and no subtitle is rendered or
\* written.
C18_FailuresAreFatal ==
    [][/\ \A a, b \in 1..Len(uploaded') :
              a # b => uploaded'[a][1] # uploaded'[b][1]
       /\ error' \in StepErrors =>
              /\ pc' \in {"finally", "rejected"}
              /\ result' = <<>>
              /\ srt' = <<>>
              /\ SrtPath \notin files'
       /\ error # "" =>
              /\ pc' = "rejected"
              /\ UNCHANGED <<error, probed, uploaded, responses, chunkPaths,
                             mergedSegments, srt, result>>
      ]_vars

\* C18 witness: the upload of chunk 1 failed after chunk 0 was merged: the
\* run rejected with that error, nothing was written, chunk 2 was not sent.
C18_Witness ==
    /\ pc = "rejected"
    /\ error = "Transcription failed"
    /\ Len(chunkPaths) = 3
    /\ Len(responses) = 1
    /\ Len(uploaded) = 2
    /\ Len(probed) = 2
    /\ SrtPath \notin files
    /\ result = <<>>

\* C19: every upload is declared with an audio content type, never with the
\* generic application/octet-stream.
C19_AudioContentType ==
    \A u \in 1..Len(uploaded) :
        /\ uploaded[u][3] # "application/octet-stream"
        /\ uploaded[u][3] \in {mimeTypes[e] : e \in DOMAIN mimeTypes}

\* Where the transcript of upload c starts in the uploaded audio's own time:
\* the durations of the chunks before it, or 0 for a single upload.
StartInOptimized(c) == IF shouldChunk THEN SumTo(probed, c - 1) ELSE 0

\* The merged segment that came from segment k of transcript c.
MergedFrom(c, k) == mergedSegments[SegmentsBefore(c - 1) + k]

\* The merged transcript of a run on audio sped up by 1.2, before the sort.
MergedSpedUp ==
    /\ speedFactor = SPEED_FACTOR
    /\ pc = "reconciled"

TextMs(text) ==
    LET width == IF text.hours < 100 THEN 100 ELSE 1000
        hours == text.kept * width + text.hours
        ms    == (hours * 3600 + text.minutes * 60 + text.secs) * 1000
                    + text.millis
    IN  IF text.negative THEN -ms ELSE ms

\* C21: with no user offset, the transformed time of t is t * f, and the
\* inverse adjustment of its rendered timestamp reads as t to within one
\* millisecond; with f = 1.0 the adjustment leaves the timestamp as it is.
C21_RoundTrip ==
    tmPc = "adjusted" /\ tmOffset = 0 =>
        /\ tmSeconds = tmT * tmF
        /\ Abs(TextMs(tmAdjusted) - tmT * 100) <= 1
        /\ tmF = Scale => tmAdjusted = AsText(tmStamp)

\* C27: every timestamp rendered for an offset the CLI accepted has hour,
\* minute, second and millisecond fields that are not negative, minutes and
\* seconds of two digits and milliseconds of three.
C27_NonNegativeFields ==
    tmPc \in {"rendered", "adjusted"} =>
        /\ tmStamp.hours >= 0
        /\ tmStamp.minutes \in 0..59
        /\ tmStamp.secs \in 0..59
        /\ tmStamp.millis \in 0..999

\* What each stage leaves behind when it has finished.
IsVideo == Ext(inputPath) \in videoFormats
Extracted == IsVideo => tempAudioPath # NoPath /\ audioPath # inputPath
Optimized ==
    optimize => /\ optimizedPath # NoPath
                /\ audioPath = optimizedPath
                /\ speedFactor = SPEED_FACTOR
Probed == durationOptimized # 0
Planned == shouldChunk => chunkSecondsOriginal > 0 /\ chunkSecondsOptimized > 0
TranscriptionStarted ==
    \/ pc \in {"split", "single", "chunk_probe", "chunk_transcribe"}
    \/ chunkPaths # <<>>
    \/ uploaded # <<>>
TranscribedAll ==
    IF shouldChunk
    THEN chunkPaths # <<>> /\ i = Len(chunkPaths)
                           /\ Len(responses) = Len(chunkPaths)
    ELSE Len(responses) = 1
Serialized == result # <<>> \/ error = "write failed" \/ srt # <<>>

C24_FailedSplitLeavesNoChunk ==
    /\ pc = "rejected"
    /\ error \in {"Audio chunk is still too large", "FFmpeg chunking failed"}
    => \A f \in files : f.kind # "chunk"

\* C25: if probing or transcribing a chunk failed, or writing the subtitle
\* file failed, or the run succeeded, then when transcribe has rejected or
\* resolved every chunk file the split returned, the extracted audio and the
\* optimized audio are deleted.
C25_ReturnedAssetsDeleted ==
    Finished /\ (chunkPaths # <<>> \/ error = "write failed" \/ pc = "done") =>
        /\ \A k \in DOMAIN chunkPaths : chunkPaths[k] \notin files
        /\ tempAudioPath \notin files
        /\ optimizedPath \notin files
        /\ \A f \in files : f.kind \notin IntermediateKinds

C25_Witness ==
    /\ pc = "rejected"
    /\ error \in {"FFprobe failed", "Transcription failed"}
    /\ Len(chunkPaths) = 3
    /\ i = 1
    /\ IsVideo
    /\ optimize

\* C26: a chunked run whose split returned exactly one chunk has the
\* reconciled segments of the single-asset path on the same response, speed
\* factor and offset: the same segments in the same order.
C26_OneChunkAsSingle ==
    shouldChunk /\ Len(chunkPaths) = 1 /\ Len(responses) = 1 =>
        LET single == transformSegmentsSingle(responses[1].segments,
                                              speedFactor, offsetSeconds)
        IN  /\ pc = "reconciled" => mergedSegments = single
            /\ pc \in {"finally", "done", "rejected"} =>
                    mergedSegments = SortByStart(single)

C26_Witness ==
    /\ pc = "done"
    /\ shouldChunk
    /\ Len(chunkPaths) = 1
    /\ responses = <<ResponseSpeech>>
    /\ speedFactor = SPEED_FACTOR
    /\ offsetSeconds # 0

\* C23: the list splitAudioIntoChunks returns is in ascending ordinal
\* index, whatever the number of chunks, more than 999 included.
C23_AscendingIndex ==
    lsPc = "listed" =>
        /\ Len(lsCreated) = lsCount
        /\ \A r \in 1..Len(lsCreated) : lsCreated[r].index = r - 1

\* C28: when two runs execute concurrently, neither writes to, reads or
\* deletes a temporary file the other created or wrote.
C28_NoForeignAccess ==
    shLog = {}

\* C29: a file that was in the directory before a run started is still
\* there, as it was, when the run has resolved or rejected.
C29_PreExistingKept ==
    shPc = (1 :> "done" @@ 2 :> "absent") \/ shPc = (1 :> "rejected" @@ 2 :> "absent")
    => \A q \in DOMAIN shBefore : q \in DOMAIN shDisk /\ shDisk[q] = shBefore[q]

\* C30: once a YouTube download has produced a local file, the file is
\* deleted when the process has exited, on every path.
C30_DownloadDeleted ==
    clPc = "exited" /\ clDownloadedFile # "null" =>
        clDownloadedFile \notin clTmpdir

====
